---- MODULE Spec2Model ----
(***************************************************************************)
(* ImageResponsePoeBot.get_response (src/GCS/imagen_bot_poe.py): the       *)
(* per-request pipeline from the last chat message to link responses and   *)
(* attachments.  Strings are sequences of one-character strings; every     *)
(* external call (generate_images, upload_from_file, generate_signed_url,  *)
(* post_message_attachment) and every yielded PartialResponse is appended  *)
(* to the request's trace in program order.                                *)
(***************************************************************************)
EXTENDS Integers, Sequences, FiniteSets, TLC

VARIABLES query, pc, last_message, number_of_images, images, index,
          random_filename, err, trace, running

vars == <<query, pc, last_message, number_of_images, images, index,
          random_filename, err, trace, running>>

(***************************************************************************)
(* Strings                                                                 *)
(***************************************************************************)

\* The literal the pattern of re.search / re.sub starts with.
FlagName == <<"-", "-", "n", "u", "m", "b", "e", "r", "_", "o", "f", "_",
              "i", "m", "a", "g", "e", "s">>

\* [0-9], in the order of their values.
Digits == <<"0", "1", "2", "3", "4", "5", "6", "7", "8", "9">>

IsDigit(c) == \E d \in 1..Len(Digits) : Digits[d] = c

DigitValue(c) == (CHOOSE d \in 1..Len(Digits) : Digits[d] = c) - 1

\* \s, and what str.strip() removes.
IsSpace(c) == c = " "

\* The first position >= i of s that holds no whitespace (Len(s)+1 if none).
RECURSIVE SkipSpaces(_, _)
SkipSpaces(s, i) ==
    IF i <= Len(s) /\ IsSpace(s[i]) THEN SkipSpaces(s, i + 1) ELSE i

\* The first position >= i of s that holds no digit (Len(s)+1 if none).
RECURSIVE SkipDigits(_, _)
SkipDigits(s, i) ==
    IF i <= Len(s) /\ IsDigit(s[i]) THEN SkipDigits(s, i + 1) ELSE i

\* The literal --number_of_images stands at position i of s.
FlagAt(s, i) ==
    /\ i + Len(FlagName) - 1 <= Len(s)
    /\ \A k \in 1..Len(FlagName) : s[i + k - 1] = FlagName[k]

\* Where the digit run of a match starting at i begins (0: no match at i).
\* --number_of_images \s* = \s* (\d+): the quantifiers are greedy and each is
\* followed by a character outside its class, so there is one way to match.
DigitsStart(s, i) ==
    IF ~FlagAt(s, i) THEN 0
    ELSE LET eq == SkipSpaces(s, i + Len(FlagName)) IN
         IF eq > Len(s) \/ s[eq] # "=" THEN 0
         ELSE LET d == SkipSpaces(s, eq + 1) IN
              IF d > Len(s) \/ ~IsDigit(s[d]) THEN 0 ELSE d

\* The position after a match starting at i (0: no match at i).
MatchEnd(s, i) ==
    LET d == DigitsStart(s, i) IN IF d = 0 THEN 0 ELSE SkipDigits(s, d)

\* re.search: the start of the leftmost match at or after i (0: none).
RECURSIVE SearchFrom(_, _)
SearchFrom(s, i) ==
    IF i > Len(s) THEN 0
    ELSE IF MatchEnd(s, i) # 0 THEN i
    ELSE SearchFrom(s, i + 1)

Search(s) == SearchFrom(s, 1)

\* int() of the digits s[i..j-1].
RECURSIVE IntOf(_, _, _)
IntOf(s, i, j) ==
    IF j <= i THEN 0 ELSE 10 * IntOf(s, i, j - 1) + DigitValue(s[j - 1])

\* int(match.group(1)) of the match starting at m.
GroupValue(s, m) == IntOf(s, DigitsStart(s, m), MatchEnd(s, m))

\* re.sub(pattern, "", s): one left-to-right pass; after a match the scan goes
\* on behind it, so the result is not scanned again.
RECURSIVE SubFrom(_, _)
SubFrom(s, i) ==
    IF i > Len(s) THEN <<>>
    ELSE LET e == MatchEnd(s, i) IN
         IF e # 0 THEN SubFrom(s, e)
         ELSE <<s[i]>> \o SubFrom(s, i + 1)

Sub(s) == SubFrom(s, 1)

\* str.strip().
RECURSIVE LStrip(_)
LStrip(s) == IF s # <<>> /\ IsSpace(Head(s)) THEN LStrip(Tail(s)) ELSE s

RECURSIVE RStrip(_)
RStrip(s) ==
    IF s # <<>> /\ IsSpace(s[Len(s)]) THEN RStrip(SubSeq(s, 1, Len(s) - 1))
    ELSE s

Strip(s) == RStrip(LStrip(s))

\* ClampCount without the branch "elif n > 4".
ClampCountNoUpperBound(n) == IF n <= 0 THEN 1 ELSE n

\* The validation of n, lines 72-77.
ClampCount(n) == IF n <= 0 THEN 1 ELSE IF n > 4 THEN 4 ELSE n

\* Lines 63-80: number_of_images and the cleaned last_message.
ParseCount(s) ==
    LET m == Search(s) IN IF m = 0 THEN 1 ELSE ClampCount(GroupValue(s, m))

ParsePrompt(s) == IF Search(s) = 0 THEN s ELSE Strip(Sub(s))

\* str(i) for i >= 0.
RECURSIVE Decimal(_)
Decimal(i) ==
    IF i < 10 THEN <<Digits[i + 1]>>
    ELSE Decimal(i \div 10) \o <<Digits[(i % 10) + 1]>>

\* s[:10].replace(" ", "_"), line 145.
SanitizedPrompt(s) ==
    LET head == SubSeq(s, 1, IF Len(s) < 10 THEN Len(s) ELSE 10) IN
    [k \in 1..Len(head) |-> IF head[k] = " " THEN "_" ELSE head[k]]

\* f"{sanitized_prompt}_image_{index + 1}.jpg", line 146 (index from 0).
Filename(s, i) ==
    SanitizedPrompt(s) \o <<"_", "i", "m", "a", "g", "e", "_">>
        \o Decimal(i + 1) \o <<".", "j", "p", "g">>

(***************************************************************************)
(* Inputs                                                                  *)
(***************************************************************************)

\* The requests the server may be handling.
Reqs == {"r1", "r2"}

\* How many pieces a generated prompt is concatenated from.
MaxPieces == 2

Directive0 == FlagName \o <<"=", "0">>
Directive2 == FlagName \o <<" ", "=", " ", "2">>
Directive7 == FlagName \o <<"=", "7">>

Pieces == {<<"a">>, <<" ">>, <<"3">>, Directive0, Directive2, Directive7}

RECURSIVE Concats(_)
Concats(k) ==
    IF k = 0 THEN {<<>>}
    ELSE LET shorter == Concats(k - 1) IN
         shorter \cup {p \o s : p \in Pieces, s \in shorter}

\* "a cat --number_of_images=7 in space"
CatInSpace ==
    <<"a", " ", "c", "a", "t", " ">> \o Directive7
        \o <<" ", "i", "n", " ", "s", "p", "a", "c", "e">>

\* "--number_of_--number_of_images=1images=3"
Nested ==
    <<"-", "-", "n", "u", "m", "b", "e", "r", "_", "o", "f", "_">>
        \o FlagName \o <<"=", "1">>
        \o <<"i", "m", "a", "g", "e", "s", "=", "3">>

\* "--number_of_images=--number_of_images=1 2"
NestedDigits == FlagName \o <<"=">> \o FlagName \o <<"=", "1", " ", "2">>

\* "--number_of_images=" (no digits: not a directive), "a --number_of_images=10".
Examples ==
    {CatInSpace, Nested, NestedDigits, FlagName \o <<"=">>,
     <<"a", " ">> \o FlagName \o <<"=", "1", "0">>}

Prompts == Concats(MaxPieces) \cup Examples

\* request.query: the contents of the chat turns, the last one being the prompt.
Queries ==
    {<<>>} \cup {<<p>> : p \in Prompts}
        \cup {<<Directive7, p>> : p \in {<<>>, <<"a">>}}

\* What generate_random_string may return (two of the 62^24 names).
Keys == {"k1", "k2"}

\* generate_images returns at most number_of_images images; TRUE is an image
\* with the _pil_image attribute.
RECURSIVE ImageSeqs(_)
ImageSeqs(k) ==
    IF k = 0 THEN {<<>>}
    ELSE LET shorter == ImageSeqs(k - 1) IN
         shorter \cup {Append(s, b) : s \in {t \in shorter : Len(t) = k - 1},
                                      b \in BOOLEAN}

(***************************************************************************)
(* The trace of a request: external calls and yielded responses            *)
(***************************************************************************)

Event(op, kind, idx, ok, n, text, key, msg) ==
    [op |-> op, kind |-> kind, idx |-> idx, ok |-> ok, n |-> n,
     text |-> text, key |-> key, msg |-> msg]

\* image_model.generate_images(prompt=, number_of_images=), lines 87-92.
CallGenerate(prompt, n, ok) ==
    Event("generate", "", 0, ok, n, prompt, "", "")

\* blob.upload_from_file under random_filename, lines 153-154.
CallUpload(i, key, ok) == Event("upload", "", i, ok, 0, <<>>, key, "")

\* generate_signed_url(bucket_name, random_filename), line 158.
CallSign(i, key, ok) == Event("sign", "", i, ok, 0, <<>>, key, "")

\* self.post_message_attachment(filename=), lines 170-174.
CallAttach(i, filename, ok) == Event("attach", "", i, ok, 0, filename, "", "")

\* yield PartialResponse(text="Prompt is required"), line 60.
TextRequired == Event("text", "required", 0, TRUE, 0, <<>>, "", "")

\* yield PartialResponse(text="No images were generated. ..."), line 96.
TextNoImages == Event("text", "noimages", 0, TRUE, 0, <<>>, "", "")

\* yield PartialResponse(text="![Generated Image_{filename}]({signed_url})").
TextLink(i, filename, key) ==
    Event("text", "link", i, TRUE, 0, filename, key, "")

\* yield PartialResponse(text='{number_of_images} image(s) ... for "{last_message}".')
TextSummary(i, n, prompt) == Event("text", "summary", i, TRUE, n, prompt, "", "")

\* yield PartialResponse(text=f"Error: {e}"), line 181.
TextError(e) == Event("text", "error", 0, TRUE, 0, <<>>, "", e)

(***************************************************************************)
(* get_response                                                            *)
(***************************************************************************)

\* The coroutine on the event loop: between two suspension points (a yield,
\* an await, the end of the generator) a handler runs without interleaving.
CanRun(r) == running \in {"none", r}

Emit(r, e) == trace' = [trace EXCEPT ![r] = Append(@, e)]

Goto(r, label) == pc' = [pc EXCEPT ![r] = label]

\* Raise without the handler of lines 179-181: the exception leaves the
\* generator, which ends without a response.
RaiseUncaught(r, e) ==
    /\ Goto(r, "done")
    /\ err' = [err EXCEPT ![r] = e]
    /\ running' = "none"

\* An exception reaching "except Exception as e", line 179.
Raise(r, e) ==
    /\ Goto(r, "except")
    /\ err' = [err EXCEPT ![r] = e]
    /\ running' = r

\* ReadPrompt without the return of line 61: the handler goes on after the
\* yield of "Prompt is required".
ReadPromptNoReturn(r) ==
    /\ pc[r] = "start"
    /\ CanRun(r)
    /\ IF query[r] = <<>>
       THEN /\ Raise(r, "IndexError")
            /\ UNCHANGED <<last_message, trace>>
       ELSE LET content == query[r][Len(query[r])] IN
            /\ last_message' = [last_message EXCEPT ![r] = content]
            /\ err' = err
            /\ Goto(r, "parse")
            /\ IF content = <<>>
               THEN /\ Emit(r, TextRequired)
                    /\ running' = "none"
               ELSE /\ running' = r
                    /\ trace' = trace
    /\ UNCHANGED <<query, number_of_images, images, index, random_filename>>

\* Lines 51-61: request.query[-1].content and the empty-prompt return.
ReadPrompt(r) ==
    /\ pc[r] = "start"
    /\ CanRun(r)
    /\ IF query[r] = <<>>
       THEN /\ Raise(r, "IndexError")
            /\ UNCHANGED <<last_message, trace>>
       ELSE LET content == query[r][Len(query[r])] IN
            /\ last_message' = [last_message EXCEPT ![r] = content]
            /\ err' = err
            /\ IF content = <<>>
               THEN /\ Emit(r, TextRequired)
                    /\ Goto(r, "returning")
                    /\ running' = "none"
               ELSE /\ Goto(r, "parse")
                    /\ running' = r
                    /\ trace' = trace
    /\ UNCHANGED <<query, number_of_images, images, index, random_filename>>

\* ParseDirective with number_of_images kept in a module-level variable that
\* all requests share.
ParseDirectiveShared(r) ==
    /\ pc[r] = "parse"
    /\ CanRun(r)
    /\ number_of_images' = [q \in Reqs |-> ParseCount(last_message[r])]
    /\ last_message' = [last_message EXCEPT ![r] = ParsePrompt(@)]
    /\ Goto(r, "generate")
    /\ running' = r
    /\ UNCHANGED <<query, images, index, random_filename, err, trace>>

\* Lines 63-83: the count directive.
ParseDirective(r) ==
    /\ pc[r] = "parse"
    /\ CanRun(r)
    /\ number_of_images' =
           [number_of_images EXCEPT ![r] = ParseCount(last_message[r])]
    /\ last_message' = [last_message EXCEPT ![r] = ParsePrompt(@)]
    /\ Goto(r, "generate")
    /\ running' = r
    /\ UNCHANGED <<query, images, index, random_filename, err, trace>>

\* GenerateImages with the exception of the call swallowed: the handler goes
\* on with no images.
GenerateImagesSwallowed(r) ==
    /\ pc[r] = "generate"
    /\ CanRun(r)
    /\ \/ /\ Emit(r, CallGenerate(last_message[r], number_of_images[r], FALSE))
          /\ images' = images
       \/ \E imgs \in ImageSeqs(number_of_images[r]) :
              /\ Emit(r, CallGenerate(last_message[r], number_of_images[r], TRUE))
              /\ images' = [images EXCEPT ![r] = imgs]
    /\ Goto(r, "check")
    /\ running' = r
    /\ UNCHANGED <<query, last_message, number_of_images, index,
                   random_filename, err>>

\* Lines 87-92: image_model.generate_images, a blocking call that returns the
\* images or raises.
GenerateImages(r) ==
    /\ pc[r] = "generate"
    /\ CanRun(r)
    /\ \/ /\ Emit(r, CallGenerate(last_message[r], number_of_images[r], FALSE))
          /\ Raise(r, "generate_images")
          /\ images' = images
       \/ \E imgs \in ImageSeqs(number_of_images[r]) :
              /\ Emit(r, CallGenerate(last_message[r], number_of_images[r], TRUE))
              /\ images' = [images EXCEPT ![r] = imgs]
              /\ Goto(r, "check")
              /\ running' = r
              /\ err' = err
    /\ UNCHANGED <<query, last_message, number_of_images, index, random_filename>>

\* CheckImages without the test of lines 95-97: an empty result enters the loop.
CheckImagesNoTest(r) ==
    /\ pc[r] = "check"
    /\ CanRun(r)
    /\ Goto(r, "loop")
    /\ running' = r
    /\ UNCHANGED <<query, last_message, number_of_images, images, index,
                   random_filename, err, trace>>

\* Lines 94-97: no image came back.
CheckImages(r) ==
    /\ pc[r] = "check"
    /\ CanRun(r)
    /\ IF Len(images[r]) = 0
       THEN /\ Emit(r, TextNoImages)
            /\ Goto(r, "returning")
            /\ running' = "none"
       ELSE /\ Goto(r, "loop")
            /\ running' = r
            /\ trace' = trace
    /\ UNCHANGED <<query, last_message, number_of_images, images, index,
                   random_filename, err>>

\* Lines 132-149: the head of one iteration of "for index, img_obj in
\* enumerate(images)": the hasattr check, the JPEG encoding (which may raise),
\* the two filenames; or the end of the loop, which ends the generator.
NextImage(r) ==
    /\ pc[r] = "loop"
    /\ CanRun(r)
    /\ IF index[r] >= Len(images[r])
       THEN /\ Goto(r, "done")
            /\ running' = "none"
            /\ UNCHANGED <<index, random_filename, err>>
       ELSE IF ~images[r][index[r] + 1]
       THEN /\ index' = [index EXCEPT ![r] = @ + 1]
            /\ Goto(r, "loop")
            /\ running' = r
            /\ UNCHANGED <<random_filename, err>>
       ELSE \/ /\ Raise(r, "save")
               /\ UNCHANGED <<index, random_filename>>
            \/ \E key \in Keys :
                   /\ random_filename' = [random_filename EXCEPT ![r] = key]
                   /\ Goto(r, "upload")
                   /\ running' = r
                   /\ UNCHANGED <<index, err>>
    /\ UNCHANGED <<query, last_message, number_of_images, images, trace>>

\* Upload with one more attempt after a first failure.
UploadRetried(r) ==
    /\ pc[r] = "upload"
    /\ CanRun(r)
    /\ \E ok \in BOOLEAN :
           /\ Emit(r, CallUpload(index[r] + 1, random_filename[r], ok))
           /\ Goto(r, IF ok THEN "sign"
                      ELSE IF \E k \in DOMAIN trace[r] :
                                  /\ trace[r][k].op = "upload"
                                  /\ trace[r][k].idx = index[r] + 1
                           THEN "attach" ELSE "upload")
    /\ running' = r
    /\ UNCHANGED <<query, last_message, number_of_images, images, index,
                   random_filename, err>>

\* Upload outside the try of line 151: its exception goes to the outer handler.
UploadUnguarded(r) ==
    /\ pc[r] = "upload"
    /\ CanRun(r)
    /\ \/ /\ Emit(r, CallUpload(index[r] + 1, random_filename[r], TRUE))
          /\ Goto(r, "sign")
          /\ err' = err
          /\ running' = r
       \/ /\ Emit(r, CallUpload(index[r] + 1, random_filename[r], FALSE))
          /\ Raise(r, "upload_from_file")
    /\ UNCHANGED <<query, last_message, number_of_images, images, index,
                   random_filename>>

\* Lines 151-155: blob.upload_from_file; any exception goes to the bare except.
Upload(r) ==
    /\ pc[r] = "upload"
    /\ CanRun(r)
    /\ \E ok \in BOOLEAN :
           /\ Emit(r, CallUpload(index[r] + 1, random_filename[r], ok))
           /\ Goto(r, IF ok THEN "sign" ELSE "attach")
    /\ running' = r
    /\ UNCHANGED <<query, last_message, number_of_images, images, index,
                   random_filename, err>>

\* SignAndLink with the fallback run as a "finally": the attachment follows
\* the link as well.
SignAndLinkThenAttach(r) ==
    /\ pc[r] = "sign"
    /\ CanRun(r)
    /\ \/ /\ trace' = [trace EXCEPT ![r] =
                 @ \o <<CallSign(index[r] + 1, random_filename[r], TRUE),
                        TextLink(index[r] + 1,
                                 Filename(last_message[r], index[r]),
                                 random_filename[r])>>]
          /\ running' = "none"
       \/ /\ Emit(r, CallSign(index[r] + 1, random_filename[r], FALSE))
          /\ running' = r
    /\ Goto(r, "attach")
    /\ UNCHANGED <<query, last_message, number_of_images, images, index,
                   random_filename, err>>

\* Lines 157-166: generate_signed_url and the yield of the markdown link; any
\* exception goes to the bare except.
SignAndLink(r) ==
    /\ pc[r] = "sign"
    /\ CanRun(r)
    /\ \/ /\ trace' = [trace EXCEPT ![r] =
                 @ \o <<CallSign(index[r] + 1, random_filename[r], TRUE),
                        TextLink(index[r] + 1,
                                 Filename(last_message[r], index[r]),
                                 random_filename[r])>>]
          /\ index' = [index EXCEPT ![r] = @ + 1]
          /\ Goto(r, "loop")
          /\ running' = "none"
       \/ /\ Emit(r, CallSign(index[r] + 1, random_filename[r], FALSE))
          /\ Goto(r, "attach")
          /\ running' = r
          /\ index' = index
    /\ UNCHANGED <<query, last_message, number_of_images, images,
                   random_filename, err>>

\* Lines 168-174: await self.post_message_attachment in the bare except; its
\* own exception leaves the loop for the outer handler.
Attach(r) ==
    /\ pc[r] = "attach"
    /\ CanRun(r)
    /\ \/ /\ Emit(r, CallAttach(index[r] + 1,
                                Filename(last_message[r], index[r]), TRUE))
          /\ Goto(r, "summary")
          /\ err' = err
       \/ /\ Emit(r, CallAttach(index[r] + 1,
                                Filename(last_message[r], index[r]), FALSE))
          /\ Goto(r, "except")
          /\ err' = [err EXCEPT ![r] = "post_message_attachment"]
    /\ running' = "none"
    /\ UNCHANGED <<query, last_message, number_of_images, images, index,
                   random_filename>>

\* YieldAttached with the batch started over after the first fallback.
YieldAttachedRestart(r) ==
    /\ pc[r] = "summary"
    /\ CanRun(r)
    /\ Emit(r, TextSummary(index[r] + 1, number_of_images[r], last_message[r]))
    /\ index' = [index EXCEPT ![r] =
                     IF \E k \in DOMAIN trace[r] : trace[r][k].kind = "summary"
                     THEN @ + 1 ELSE 0]
    /\ Goto(r, "loop")
    /\ running' = "none"
    /\ UNCHANGED <<query, last_message, number_of_images, images,
                   random_filename, err>>

\* Lines 176-177: the yield that follows the await inside the bare except.
YieldAttached(r) ==
    /\ pc[r] = "summary"
    /\ CanRun(r)
    /\ Emit(r, TextSummary(index[r] + 1, number_of_images[r], last_message[r]))
    /\ index' = [index EXCEPT ![r] = @ + 1]
    /\ Goto(r, "loop")
    /\ running' = "none"
    /\ UNCHANGED <<query, last_message, number_of_images, images,
                   random_filename, err>>

\* Lines 179-181: the outer handler.
HandleError(r) ==
    /\ pc[r] = "except"
    /\ CanRun(r)
    /\ Emit(r, TextError(err[r]))
    /\ Goto(r, "returning")
    /\ running' = "none"
    /\ UNCHANGED <<query, last_message, number_of_images, images, index,
                   random_filename, err>>

\* The generator is resumed after its last yield and ends (lines 61, 97, 181).
Return(r) ==
    /\ pc[r] = "returning"
    /\ CanRun(r)
    /\ Goto(r, "done")
    /\ running' = "none"
    /\ UNCHANGED <<query, last_message, number_of_images, images, index,
                   random_filename, err, trace>>

\* One request, r1, has arrived; r2 has not.
Init ==
    /\ query \in [Reqs -> Queries]
    /\ query["r2"] = <<>>
    /\ pc = [r \in Reqs |-> IF r = "r1" THEN "start" ELSE "idle"]
    /\ last_message = [r \in Reqs |-> <<>>]
    /\ number_of_images = [r \in Reqs |-> 1]
    /\ images = [r \in Reqs |-> <<>>]
    /\ index = [r \in Reqs |-> 0]
    /\ random_filename = [r \in Reqs |-> "k1"]
    /\ err = [r \in Reqs |-> ""]
    /\ trace = [r \in Reqs |-> <<>>]
    /\ running = "none"

\* One step of the handler of request r.
Step(r) ==
    \/ ReadPrompt(r)
    \/ ParseDirective(r)
    \/ GenerateImages(r)
    \/ CheckImages(r)
    \/ NextImage(r)
    \/ Upload(r)
    \/ SignAndLink(r)
    \/ Attach(r)
    \/ YieldAttached(r)
    \/ HandleError(r)
    \/ Return(r)

Next == \E r \in Reqs : Step(r)

Spec == Init /\ [][Next]_vars

\* The queries of two requests in flight at once: no message, an empty
\* prompt, "a" and "3--number_of_images = 2".
TwoQueries == {<<>>, <<<<>>>>, <<<<"a">>>>, <<<<"3">> \o Directive2>>}

\* Both requests have arrived: the server runs one get_response coroutine per
\* request on the one event loop of uvicorn.run (line 188).
InitTwo ==
    /\ query \in [Reqs -> TwoQueries]
    /\ pc = [r \in Reqs |-> "start"]
    /\ last_message = [r \in Reqs |-> <<>>]
    /\ number_of_images = [r \in Reqs |-> 1]
    /\ images = [r \in Reqs |-> <<>>]
    /\ index = [r \in Reqs |-> 0]
    /\ random_filename = [r \in Reqs |-> "k1"]
    /\ err = [r \in Reqs |-> ""]
    /\ trace = [r \in Reqs |-> <<>>]
    /\ running = "none"

SpecTwo == InitTwo /\ [][Next]_vars

(***************************************************************************)
(* Vocabulary of the properties                                            *)
(***************************************************************************)

\* The content of the last message of r's query.
Content(r) == query[r][Len(query[r])]

HasContent(r) == pc[r] # "idle" /\ query[r] # <<>>

\* The positions of r's trace that hold an event of the given op and kind.
Positions(r, op, kind) ==
    {k \in DOMAIN trace[r] : trace[r][k].op = op /\ trace[r][k].kind = kind}

\* The PartialResponses r has yielded, in order.
Texts(r) == SelectSeq(trace[r], LAMBDA e : e.op = "text")

\* The post_message_attachment calls that delivered their attachment.
Delivered(r) ==
    {k \in Positions(r, "attach", "") : trace[r][k].ok}

\* generate_images has returned r's images.
Generated(r) == \E k \in Positions(r, "generate", "") : trace[r][k].ok

\* Every image of r has pixel data.
AllUsable(r) == \A i \in DOMAIN images[r] : images[r][i]

\* Upload and signing succeeded for image i of r.
Published(r, i) ==
    /\ \E k \in Positions(r, "upload", "") :
           trace[r][k].idx = i /\ trace[r][k].ok
    /\ \E k \in Positions(r, "sign", "") :
           trace[r][k].idx = i /\ trace[r][k].ok

(***************************************************************************)
(* Properties                                                              *)
(***************************************************************************)

\* C1: when images of a batch fall back to the attachment path there is one
\* summary text response for the request, not one per attached image, and it
\* is the last event of the request: every image has been processed and every
\* attachment delivered before it, and nothing follows it.
C1_OneSummaryAfterAllAttachments ==
    \A r \in Reqs :
        LET summaries == Positions(r, "text", "summary") IN
        Positions(r, "text", "error") = {}
        => /\ Cardinality(summaries) <= 1
           /\ \A k \in summaries : k = Len(trace[r])
           /\ (pc[r] = "done" /\ Delivered(r) # {})
                  => Cardinality(summaries) = 1

\* C2: when no image of the batch is published as a link, the count in the
\* summary is the number of attachments delivered by post_message_attachment
\* for the request, and the summary names the cleaned prompt.
C2_SummaryCountsDeliveredAttachments ==
    \A r \in Reqs :
        (pc[r] = "done" /\ Positions(r, "text", "link") = {}
            /\ Positions(r, "text", "error") = {})
        => \A k \in Positions(r, "text", "summary") :
               /\ trace[r][k].n = Cardinality(Delivered(r))
               /\ trace[r][k].text = last_message[r]

\* C3: when generate_images returns images and none of them has pixel data,
\* the finished request has yielded exactly one text response, no link and
\* no attachment.
C3_AllSkippedYieldsOneText ==
    \A r \in Reqs :
        (pc[r] = "done" /\ Generated(r) /\ images[r] # <<>>
            /\ \A i \in DOMAIN images[r] : ~images[r][i])
        => /\ Len(Texts(r)) = 1
           /\ Positions(r, "text", "link") = {}
           /\ Positions(r, "attach", "") = {}

\* C4: the directive parser is idempotent: the cleaned prompt handed to
\* generate_images holds no match of --number_of_images\s*=\s*<digits>, so
\* parsing it again gives the same cleaned prompt and the count 1.
C4_ParserIdempotent ==
    \A r \in Reqs :
        pc[r] = "generate"
        => /\ Search(last_message[r]) = 0
           /\ ParsePrompt(last_message[r]) = last_message[r]
           /\ ParseCount(last_message[r]) = 1

\* C5: for a non-empty prompt without a count directive, generate_images is
\* called with the count 1 and with the prompt stripped of leading and
\* trailing whitespace.
C5_NoDirectivePromptTrimmed ==
    \A r \in Reqs :
        (HasContent(r) /\ Content(r) # <<>> /\ Search(Content(r)) = 0)
        => \A k \in Positions(r, "generate", "") :
               /\ trace[r][k].n = 1
               /\ trace[r][k].text = Strip(Content(r))

\* C6: the count generate_images is called with is in 1..4: it is 1 without a
\* directive, and with a first directive of value v it is 1 when v <= 0, v
\* when 1 <= v <= 4 and 4 when v > 4.  The count is number_of_images as the
\* parser left it (the handler stands before the call), and every call of
\* generate_images carries number_of_images.
C6_CountClamped ==
    \A r \in Reqs :
        /\ number_of_images[r] \in 1..4
        /\ \A k \in Positions(r, "generate", "") :
               trace[r][k].n = number_of_images[r]
        /\ pc[r] = "generate"
               => LET n == number_of_images[r]
                      m == Search(Content(r))
                      v == GroupValue(Content(r), m)
                  IN  /\ m = 0 => n = 1
                      /\ (m # 0 /\ v <= 0) => n = 1
                      /\ (m # 0 /\ 1 <= v /\ v <= 4) => n = v
                      /\ (m # 0 /\ v > 4) => n = 4

\* C6's case: generate_images was called for a prompt whose first directive
\* has a value above 4.
C6_Witness ==
    \E r \in Reqs :
        /\ Positions(r, "generate", "") # {}
        /\ Search(Content(r)) # 0
        /\ GroupValue(Content(r), Search(Content(r))) > 4
        /\ number_of_images[r] = 4

\* C7: generate_images is never called with an empty prompt.
C7_GeneratePromptNonEmpty ==
    \A r \in Reqs :
        \A k \in Positions(r, "generate", "") : trace[r][k].text # <<>>

\* C8: when the content of the last message is empty, the request yields the
\* one text response "Prompt is required" and then ends: generate_images,
\* upload, signing and post_message_attachment are never called.
C8_EmptyPromptOneResponse ==
    \A r \in Reqs :
        (HasContent(r) /\ Content(r) = <<>> /\ pc[r] # "start")
        => /\ trace[r] = <<TextRequired>>
           /\ pc[r] \in {"returning", "done"}

\* C8's case: a request with an empty prompt has ended.
C8_Witness ==
    \E r \in Reqs :
        /\ HasContent(r)
        /\ Content(r) = <<>>
        /\ pc[r] = "done"
        /\ Len(Texts(r)) = 1

\* C9: when generate_images returns no image, the request yields the one text
\* response that advises to modify the prompt and then ends: the trace holds
\* the generation call and that response, so no upload, signing, link,
\* attachment or summary.
C9_NoImagesOneResponse ==
    \A r \in Reqs :
        (Generated(r) /\ images[r] = <<>> /\ pc[r] # "check")
        => /\ Len(trace[r]) = 2
           /\ trace[r][1].op = "generate"
           /\ trace[r][2] = TextNoImages
           /\ pc[r] \in {"returning", "done"}

\* C9's case: a request whose generation returned no image has ended.
C9_Witness ==
    \E r \in Reqs :
        /\ Generated(r)
        /\ images[r] = <<>>
        /\ pc[r] = "done"
        /\ Positions(r, "text", "noimages") # {}

\* C10: when all N >= 1 generated images have pixel data and upload and
\* signing succeeded for each, the finished request has yielded exactly N
\* text responses, the i-th being the markdown link of image i, and there is
\* neither an attachment delivery nor a summary.
C10_AllLinks ==
    \A r \in Reqs :
        (pc[r] = "done" /\ images[r] # <<>> /\ AllUsable(r)
            /\ \A i \in DOMAIN images[r] : Published(r, i))
        => /\ Len(Texts(r)) = Len(images[r])
           /\ \A i \in DOMAIN images[r] :
                  /\ Texts(r)[i].kind = "link"
                  /\ Texts(r)[i].idx = i
                  /\ Texts(r)[i].text = Filename(last_message[r], i - 1)
           /\ Positions(r, "attach", "") = {}
           /\ Positions(r, "text", "summary") = {}

\* C10's case: a batch of four images, all published as links, has ended.
C10_Witness ==
    \E r \in Reqs :
        /\ pc[r] = "done"
        /\ Len(images[r]) = 4
        /\ AllUsable(r)
        /\ \A i \in DOMAIN images[r] : Published(r, i)

\* The handler of r has left its try block: it is at, or past, its last yield.
Ended(r) == pc[r] \in {"returning", "done"}

\* generate_images raised for r.
GenerateFailed(r) == \E k \in Positions(r, "generate", "") : ~trace[r][k].ok

\* C11: an exception raised while the request is read (IndexError), by
\* generate_images, by the JPEG encoding or by post_message_attachment becomes
\* one text response "Error: <message>": there is at most one per request, it
\* carries the message of the exception, it is the last event of the request,
\* and a request in which an exception was raised does not end without it.
C11_ExceptionsBecomeOneError ==
    \A r \in Reqs :
        LET errors == Positions(r, "text", "error") IN
        /\ Cardinality(errors) <= 1
        /\ \A k \in errors :
               /\ k = Len(trace[r])
               /\ err[r] # ""
               /\ trace[r][k] = TextError(err[r])
        /\ (Ended(r) /\ err[r] # "") => errors # {}
        /\ (Ended(r) /\ (GenerateFailed(r)
                \/ \E k \in Positions(r, "attach", "") : ~trace[r][k].ok))
               => errors # {}
        /\ (Ended(r) /\ pc[r] # "idle" /\ query[r] = <<>>)
               => trace[r] = <<TextError("IndexError")>>

\* C11's case: the encoding of a later image raised after a link had been
\* yielded, and the request has ended.
C11_Witness ==
    \E r \in Reqs :
        /\ pc[r] = "done"
        /\ err[r] = "save"
        /\ Positions(r, "text", "link") # {}
        /\ trace[r][Len(trace[r])].kind = "error"

\* C12: when generate_images raises, the request produces one response in
\* all, the text response carrying the error, and no upload, signing, link or
\* attachment: its trace is the failed call followed by that response.
C12_GenerationFailureOneResponse ==
    \A r \in Reqs :
        GenerateFailed(r)
        => /\ pc[r] \in {"except", "returning", "done"}
           /\ trace[r][1].op = "generate"
           /\ Len(trace[r]) <= 2
           /\ Ended(r) => /\ Len(trace[r]) = 2
                          /\ trace[r][2] = TextError("generate_images")

\* C12's case: a request whose generation raised has ended.
C12_Witness ==
    \E r \in Reqs :
        /\ GenerateFailed(r)
        /\ pc[r] = "done"
        /\ Len(Texts(r)) = 1

\* The positions of r's trace that hold an event of the given op and kind
\* for image i (counted from 1).
ImagePositions(r, op, kind, i) ==
    {k \in Positions(r, op, kind) : trace[r][k].idx = i}

\* upload_from_file or generate_signed_url failed for image i of r.
PublishFailed(r, i) ==
    \E k \in DOMAIN trace[r] :
        /\ trace[r][k].idx = i
        /\ trace[r][k].op \in {"upload", "sign"}
        /\ ~trace[r][k].ok

InOrder(e, f) ==
    IF f.idx = e.idx
    THEN \/ e.op = "upload" /\ e.ok /\ f.op = "sign"
         \/ e.op = "upload" /\ ~e.ok /\ f.op = "attach"
         \/ e.op = "sign" /\ e.ok /\ f.kind = "link"
         \/ e.op = "sign" /\ ~e.ok /\ f.op = "attach"
         \/ e.op = "attach" /\ e.ok /\ f.kind = "summary"
    ELSE /\ e.idx < f.idx
         /\ e.op = "text"
         /\ f.op = "upload"

\* C14: the images of a batch are processed one after the other in generation
\* order: the generation call comes first, every call and output of an image
\* comes before any call or output of a later image, within one image the
\* upload comes before the signing and both before the link or the
\* attachment, and only the end of the request follows the images.
C14_GenerationOrder ==
    \A r \in Reqs :
        LET t == trace[r] IN
        \A k \in DOMAIN t :
            /\ t[k].op = "generate" <=> (k = 1 /\ pc[r] # "idle" /\ t[k].idx = 0
                                            /\ t[k].kind = "")
            /\ t[k].idx > 0
                   => /\ t[k].idx \in DOMAIN images[r]
                      /\ k > 1
                      /\ t[k - 1].idx = 0 => (k = 2 /\ t[k].op = "upload")
                      /\ t[k - 1].idx > 0 => InOrder(t[k - 1], t[k])
            /\ (t[k].idx = 0 /\ k > 1) => k = Len(t)

\* C14's case: a batch whose second image was attached and whose third was
\* published as a link has ended.
C14_Witness ==
    \E r \in Reqs :
        /\ pc[r] = "done"
        /\ Len(images[r]) >= 3
        /\ ImagePositions(r, "attach", "", 2) # {}
        /\ ImagePositions(r, "text", "link", 3) # {}

\* C15: nothing is retried: a request calls generate_images at most once, and
\* for each image it calls upload_from_file, generate_signed_url and
\* post_message_attachment at most once each, whatever the calls return.
C15_NoRetries ==
    \A r \in Reqs :
        \A op \in {"generate", "upload", "sign", "attach"} :
            LET calls == {k \in DOMAIN trace[r] : trace[r][k].op = op} IN
            /\ \A k, l \in calls :
                   trace[r][k].idx = trace[r][l].idx => k = l
            /\ \A k \in calls :
                   trace[r][k].idx \in (IF op = "generate" THEN {0} ELSE 1..4)

\* C15's case: a batch in which an upload failed for one image and a signing
\* for another has ended.
C15_Witness ==
    \E r \in Reqs :
        /\ pc[r] = "done"
        /\ \E k \in ImagePositions(r, "upload", "", 1) : ~trace[r][k].ok
        /\ \E k \in ImagePositions(r, "sign", "", 2) : ~trace[r][k].ok
        /\ Cardinality(Delivered(r)) = 2

\* C16: the handler suspends while it waits for generate_images, for the
\* upload and for the signing: while the next step of one request is the
\* return of one of these calls, another request in flight can take a step.
C16_OtherRequestRunsDuringCalls ==
    \A r, s \in Reqs :
        (r # s /\ pc[r] \in {"generate", "upload", "sign"}
            /\ pc[s] \notin {"idle", "done"})
        => ENABLED Step(s)

\* C17: the names generated within one batch are unique: two distinct images
\* of a request never have the same human-readable filename nor the same
\* storage key, so no upload of a batch overwrites another and the links of
\* a batch carry distinct URLs.
C17_NamesUniqueInBatch ==
    \A r \in Reqs :
        \A k, l \in DOMAIN trace[r] :
            (k # l /\ trace[r][k].op = trace[r][l].op
                /\ trace[r][k].kind = trace[r][l].kind)
            => /\ trace[r][k].op = "attach"
                      => trace[r][k].text # trace[r][l].text
               /\ (trace[r][k].op = "upload" /\ trace[r][k].ok
                       /\ trace[r][l].ok)
                      => trace[r][k].key # trace[r][l].key
               /\ trace[r][k].kind = "link"
                      => /\ trace[r][k].key # trace[r][l].key
                         /\ trace[r][k].text # trace[r][l].text

\* Everything the handler of r reads and writes apart from the event loop.
Local(r) ==
    <<query[r], pc[r], last_message[r], number_of_images[r], images[r],
      index[r], random_filename[r], err[r], trace[r]>>

\* Every call and response of r is computed from r's own query, images and
\* random names.
OwnData(r) ==
    LET prompt == ParsePrompt(Content(r))
        count == ParseCount(Content(r))
    IN  \A k \in DOMAIN trace[r] :
            LET e == trace[r][k] IN
            /\ e.op = "generate" => e.text = prompt /\ e.n = count
            /\ e.op = "attach" => e.text = Filename(prompt, e.idx - 1)
            /\ e.kind = "link"
                   => /\ e.text = Filename(prompt, e.idx - 1)
                      /\ \E u \in ImagePositions(r, "upload", "", e.idx) :
                             u < k /\ trace[r][u].key = e.key
            /\ e.kind = "summary" => e.text = prompt /\ e.n = count
            /\ e.idx > 0 => e.idx \in DOMAIN images[r] /\ images[r][e.idx]

====
